---- MODULE Spec2Model ----
(***************************************************************************)
(* Model of the birthdate movie finder.                                    *)
(*                                                                         *)
(*   src/index.tsx          the Form Controller: the submit handler of the *)
(*                          birthdate form, its localStorage cache and the *)
(*                          DOM it renders into.                           *)
(*   src/unnamed/part_000   the Proxy Handler: a serverless function that  *)
(*                          forwards a prompt to the generative-AI API.    *)
(*                                                                         *)
(* Three specifications:                                                   *)
(*   Spec       the Form Controller in one tab (submit events and AI       *)
(*              responses, interleaved as the event loop allows);          *)
(*   SpecKey    the derivation of the cache key from a date and a          *)
(*              timezone, over a range of dates;                           *)
(*   SpecProxy  invocations of the Proxy Handler.                          *)
(***************************************************************************)
EXTENDS Integers, Sequences, FiniteSets, TLC

(***************************************************************************)
(* Bounds of the model.                                                    *)
(***************************************************************************)
\* submit events in one run of Spec
MaxSubmits == 3
\* the submitted dates reach this many days before the day the page loaded
DaysBack == 3
\* ... and this many days after it
DaysFwd == 1
\* the AI answers with 0..MaxAlts alternative movies (the schema sets no length)
MaxAlts == 3
\* distinct movie titles the AI may answer with
MaxTitles == 1
\* SpecKey: the dates run over the years FirstYear .. FirstYear + YearSpan
YearSpan == 1
\* invocations of the Proxy Handler in one run of SpecProxy
MaxInvocations == 2
\* distinct prompts and distinct upstream JSON documents in SpecProxy
MaxPrompts == 2

FirstYear == 2023

(***************************************************************************)
(* Calendar arithmetic, as the JavaScript Date object does it.             *)
(***************************************************************************)
IsLeap(y) == (y % 4 = 0 /\ y % 100 # 0) \/ y % 400 = 0

DaysInMonth(y, m) ==
    IF m = 2 THEN (IF IsLeap(y) THEN 29 ELSE 28)
    ELSE IF m \in {4, 6, 9, 11} THEN 30 ELSE 31

MkDate(y, m, d) == [y |-> y, m |-> m, d |-> d]

NextDay(dt) ==
    IF dt.d < DaysInMonth(dt.y, dt.m) THEN MkDate(dt.y, dt.m, dt.d + 1)
    ELSE IF dt.m < 12 THEN MkDate(dt.y, dt.m + 1, 1)
    ELSE MkDate(dt.y + 1, 1, 1)

PrevDay(dt) ==
    IF dt.d > 1 THEN MkDate(dt.y, dt.m, dt.d - 1)
    ELSE IF dt.m > 1 THEN MkDate(dt.y, dt.m - 1, DaysInMonth(dt.y, dt.m - 1))
    ELSE MkDate(dt.y - 1, 12, 31)

RECURSIVE AddDays(_, _)
AddDays(dt, n) ==
    IF n = 0 THEN dt
    ELSE IF n > 0 THEN AddDays(NextDay(dt), n - 1)
    ELSE AddDays(PrevDay(dt), n + 1)

(***************************************************************************)
(* Strings are sequences of UTF-16 code units; the date strings are built  *)
(* and compared as the code builds and compares them.                      *)
(***************************************************************************)
Digit(n) == 48 + n
Hyphen == 45

\* String(n).padStart(2, '0') for 0 <= n <= 99
Pad2(n) == <<Digit(n \div 10), Digit(n % 10)>>

\* String(n) for a year of four digits
Str4(n) == <<Digit(n \div 1000), Digit((n \div 100) % 10),
             Digit((n \div 10) % 10), Digit(n % 10)>>

\* `${yyyy}-${mm}-${dd}`: also the value a date input holds for a chosen date
DateString(dt) == Str4(dt.y) \o <<Hyphen>> \o Pad2(dt.m) \o <<Hyphen>> \o Pad2(dt.d)

EmptyString == <<>>

\* a > b on strings: the comparison by code units of JavaScript
StrGreater(a, b) ==
    \E i \in 1..Len(a) :
        /\ \A j \in 1..(i - 1) : j <= Len(b) /\ a[j] = b[j]
        /\ (i > Len(b) \/ a[i] > b[i])

\* the date a date string of the form YYYY-MM-DD names
DigitVal(c) == c - 48
StringDate(s) ==
    MkDate(DigitVal(s[1]) * 1000 + DigitVal(s[2]) * 100 + DigitVal(s[3]) * 10 + DigitVal(s[4]),
           DigitVal(s[6]) * 10 + DigitVal(s[7]),
           DigitVal(s[9]) * 10 + DigitVal(s[10]))

(***************************************************************************)
(* The cache key of a submitted date: index.tsx lines 91-97.               *)
(* new Date("YYYY-MM-DD") is midnight UTC of that day; getDate, setDate,   *)
(* toLocaleString and getFullYear all work in the local time of the        *)
(* browser, tz hours east of UTC.                                          *)
(***************************************************************************)
\* the timezones of the earth, in whole hours east of UTC
TzOffsets == (0 - 12)..14
\* the timezones Spec runs the form in
FormTzOffsets == {-5, 0}

\* an instant as the UTC date and hour
ParseDateUTC(s) == [date |-> StringDate(s), hour |-> 0]

\* the local calendar date of an instant
LocalDate(inst, tz) ==
    IF inst.hour + tz < 0 THEN PrevDay(inst.date)
    ELSE IF inst.hour + tz >= 24 THEN NextDay(inst.date)
    ELSE inst.date

\* birthdate.setDate(birthdate.getDate() + 1): the local date after the shift
\* (mutant: the date string read as a local date)
ShiftedLocalNoTz(s, tz) == NextDay(StringDate(s))
ShiftedLocal(s, tz) == NextDay(LocalDate(ParseDateUTC(s), tz))

MonthNames == <<"enero", "febrero", "marzo", "abril", "mayo", "junio", "julio",
                "agosto", "septiembre", "octubre", "noviembre", "diciembre">>

\* toLocaleString('es-ES', { month: 'long' })
MonthLong(dt) == MonthNames[dt.m]

\* `movie-${month}-${year}`
MkKey(month, year) == <<"movie", month, year>>

CacheKey(s, tz) == MkKey(MonthLong(ShiftedLocal(s, tz)), ShiftedLocal(s, tz).y)

(***************************************************************************)
(* JSON documents and their text.  A text is either well formed, and then  *)
(* JSON.parse returns the document it carries, or JSON.parse throws.  The  *)
(* documents the AI call may answer with: null, an object without any of   *)
(* the three fields, and movie objects with 0..MaxAlts alternatives.       *)
(***************************************************************************)
JsonNull == [type |-> "null"]
EmptyObject == [type |-> "object"]

Title(t) == "Movie" \o ToString(t)
Synopsis(t) == "Synopsis" \o ToString(t)
AltTitle(i) == "Alt" \o ToString(i)

MovieObject(t, n) ==
    [type |-> "object", movieTitle |-> Title(t), description |-> Synopsis(t),
     alternativeMovies |-> [i \in 1..n |-> AltTitle(i)]]

MovieObjects == {MovieObject(t, n) : t \in 1..MaxTitles, n \in 0..MaxAlts}
JsonDocs == {JsonNull, EmptyObject} \cup MovieObjects

\* JSON.stringify of a document that JSON.parse produced
JSONstringify(doc) == [wf |-> TRUE, doc |-> doc]
\* a text JSON.parse throws on (not JSON, or response.text undefined)
MalformedText == [wf |-> FALSE, doc |-> JsonNull]
ParseThrows(text) == ~text.wf
JSONparse(text) == text.doc

ResponseTexts == {JSONstringify(doc) : doc \in JsonDocs} \cup {MalformedText}

(***************************************************************************)
(* The DOM: what innerHTML holds.                                          *)
(***************************************************************************)
EmptyHtml == [tag |-> "empty"]
Paragraph(text) == [tag |-> "p", text |-> text]

SelectDateMsg == "Por favor, selecciona una fecha."
PastDateMsg == "Por favor, selecciona una fecha en el pasado."
FailureMsg ==
    "Lo siento, no pude encontrar una película para esa fecha. Por favor, intenta con otra."

\* `${x}` of a property of movieData
TemplateText(movieData, field) ==
    IF field \in DOMAIN movieData THEN movieData[field] ELSE "undefined"

\* displayResults, lines 54-62: the <li> items of alternativesHtml
\* (mutant: only the first alternative is listed)
AlternativesFirstOnly(movieData) ==
    IF "alternativeMovies" \in DOMAIN movieData /\ Len(movieData.alternativeMovies) > 0
    THEN <<movieData.alternativeMovies[1]>>
    ELSE <<>>
AlternativesItems(movieData) ==
    IF "alternativeMovies" \in DOMAIN movieData /\ Len(movieData.alternativeMovies) > 0
    THEN movieData.alternativeMovies
    ELSE <<>>

\* displayResults, lines 64-68: the markup written to resultContainer
ResultHtml(movieData) ==
    [tag |-> "result",
     h2 |-> TemplateText(movieData, "movieTitle"),
     p |-> TemplateText(movieData, "description"),
     li |-> AlternativesItems(movieData)]

\* displayResults throws a TypeError at line 55 when movieData is null
DisplayThrows(movieData) == movieData.type = "null"

(***************************************************************************)
(* State.                                                                  *)
(***************************************************************************)
VARIABLES
    \* Form Controller (src/index.tsx)
    today,          \* the local date when the page loaded (line 19)
    tz,             \* the browser's timezone, hours east of UTC
    localStorage,   \* the cache: cache key -> stored text
    loaderHidden,   \* loader.classList contains 'hidden'
    resultDisplay,  \* resultContainer.style.display
    resultHtml,     \* resultContainer.innerHTML
    tasks,          \* submit handlers suspended at the await: id -> cache key
    nSubmits,       \* submit events so far
    aiCalls,        \* calls of ai.models.generateContent so far
    last,           \* the handler step that ran last, and the path it took
    \* key derivation alone (SpecKey)
    kValue, kTz, kKey,
    \* Proxy Handler (src/unnamed/part_000)
    invocations,    \* id -> state of that invocation of handler
    nInvocations    \* invocations so far

formVars == <<today, tz, localStorage, loaderHidden, resultDisplay, resultHtml,
              tasks, nSubmits, aiCalls, last>>
keyVars == <<kValue, kTz, kKey>>
proxyVars == <<invocations, nInvocations>>
vars == <<formVars, keyVars, proxyVars>>

NoKey == <<"none", "", 0>>
\* the record of a handler step: the submit event (op "submit", with the value
\* of the input) or the continuation after the await (op "response", with the
\* text of the response), the path taken, the cache key derived, and how many
\* times the step assigned 'block' to resultContainer.style.display
NoText == [wf |-> FALSE, doc |-> [type |-> "none"]]
NoStep ==
    [op |-> "none", id |-> 0, value |-> <<>>, path |-> "none", key |-> NoKey,
     shown |-> 0, text |-> NoText]
SubmitStep(id, value, path, key, shown) ==
    [op |-> "submit", id |-> id, value |-> value, path |-> path, key |-> key,
     shown |-> shown, text |-> NoText]
ResponseStep(id, path, key, shown, text) ==
    [op |-> "response", id |-> id, value |-> <<>>, path |-> path, key |-> key,
     shown |-> shown, text |-> text]

EmptyMap == [k \in {} |-> 0]
Put(map, k, v) == [x \in DOMAIN map \cup {k} |-> IF x = k THEN v ELSE map[x]]
Remove(map, k) == [x \in DOMAIN map \ {k} |-> map[x]]

\* the days the page may have been loaded on
TodaySet == {MkDate(2024, 1, 1)}

\* lines 19-23
todayString == DateString(today)

\* what birthdateInput.value may hold at a submit event: nothing, or a date
InputValuesOn ==
    [t \in TodaySet |->
        {EmptyString} \cup {DateString(AddDays(t, k)) : k \in (0 - DaysBack)..DaysFwd}]
InputValues == InputValuesOn[today]

FormIdle ==
    /\ today = MkDate(2024, 1, 1) /\ tz = 0
    /\ localStorage = EmptyMap /\ loaderHidden = TRUE
    /\ resultDisplay = "" /\ resultHtml = EmptyHtml
    /\ tasks = EmptyMap /\ nSubmits = 0 /\ aiCalls = 0 /\ last = NoStep
KeyIdle == kValue = EmptyString /\ kTz = 0 /\ kKey = NoKey
ProxyIdle == invocations = EmptyMap /\ nInvocations = 0

Init ==
    /\ today \in TodaySet
    /\ tz \in FormTzOffsets
    /\ localStorage = EmptyMap
    /\ loaderHidden \in BOOLEAN
    /\ resultDisplay = ""
    /\ resultHtml = EmptyHtml
    /\ tasks = EmptyMap
    /\ nSubmits = 0
    /\ aiCalls = 0
    /\ last = NoStep
    /\ KeyIdle
    /\ ProxyIdle

(***************************************************************************)
(* The submit handler, lines 74-139.  A submit event runs the handler to   *)
(* its return or to the await of line 115; the answer of the AI call runs  *)
(* the rest of it.                                                         *)
(***************************************************************************)
\* line 78: !birthdateValue
IsEmptyValue(v) == v = EmptyString
\* line 85: birthdateValue > todayString
\* (mutant: only the years are compared)
FutureByYearOnly(v) == StringDate(v).y > today.y
IsFutureValue(v) == StrGreater(v, todayString)

\* line 100-101: localStorage.getItem(cacheKey) is a non-empty string
Cached(key) == key \in DOMAIN localStorage

\* (mutant: the result area is not made visible)
SubmitEmptyKeepsHidden ==
    /\ nSubmits < MaxSubmits
    /\ \E v \in InputValues :
        /\ IsEmptyValue(v)
        /\ resultHtml' = Paragraph(SelectDateMsg)
        /\ nSubmits' = nSubmits + 1
        /\ last' = SubmitStep(nSubmits + 1, v, "empty", NoKey, 0)
    /\ UNCHANGED <<today, tz, localStorage, loaderHidden, resultDisplay, tasks, aiCalls>>
    /\ UNCHANGED <<keyVars, proxyVars>>
\* lines 78-82
SubmitEmpty ==
    /\ nSubmits < MaxSubmits
    /\ \E v \in InputValues :
        /\ IsEmptyValue(v)
        /\ resultDisplay' = "block"
        /\ resultHtml' = Paragraph(SelectDateMsg)
        /\ nSubmits' = nSubmits + 1
        /\ last' = SubmitStep(nSubmits + 1, v, "empty", NoKey, 1)
    /\ UNCHANGED <<today, tz, localStorage, loaderHidden, tasks, aiCalls>>
    /\ UNCHANGED <<keyVars, proxyVars>>

\* lines 85-89
SubmitFuture ==
    /\ nSubmits < MaxSubmits
    /\ \E v \in InputValues :
        /\ ~IsEmptyValue(v)
        /\ IsFutureValue(v)
        /\ resultDisplay' = "block"
        /\ resultHtml' = Paragraph(PastDateMsg)
        /\ nSubmits' = nSubmits + 1
        /\ last' = SubmitStep(nSubmits + 1, v, "future", NoKey, 1)
    /\ UNCHANGED <<today, tz, localStorage, loaderHidden, tasks, aiCalls>>
    /\ UNCHANGED <<keyVars, proxyVars>>

\* lines 91-104 with displayResults (lines 53-71): the cache holds the key
SubmitHit ==
    /\ nSubmits < MaxSubmits
    /\ \E v \in InputValues :
        /\ ~IsEmptyValue(v)
        /\ ~IsFutureValue(v)
        /\ Cached(CacheKey(v, tz))
        /\ ~DisplayThrows(JSONparse(localStorage[CacheKey(v, tz)]))
        /\ resultHtml' = ResultHtml(JSONparse(localStorage[CacheKey(v, tz)]))
        /\ loaderHidden' = TRUE
        /\ resultDisplay' = "block"
        /\ nSubmits' = nSubmits + 1
        /\ last' = SubmitStep(nSubmits + 1, v, "hit", CacheKey(v, tz), 1)
    /\ UNCHANGED <<today, tz, localStorage, tasks, aiCalls>>
    /\ UNCHANGED <<keyVars, proxyVars>>

\* lines 91-102: the cache holds the text "null" under the key, JSON.parse
\* returns null and displayResults throws at line 55, outside any try: the
\* handler's promise rejects and the DOM stays as it was
SubmitHitThrows ==
    /\ nSubmits < MaxSubmits
    /\ \E v \in InputValues :
        /\ ~IsEmptyValue(v)
        /\ ~IsFutureValue(v)
        /\ Cached(CacheKey(v, tz))
        /\ DisplayThrows(JSONparse(localStorage[CacheKey(v, tz)]))
        /\ nSubmits' = nSubmits + 1
        /\ last' = SubmitStep(nSubmits + 1, v, "hitThrows", CacheKey(v, tz), 0)
    /\ UNCHANGED <<today, tz, localStorage, loaderHidden, resultDisplay, resultHtml,
                   tasks, aiCalls>>
    /\ UNCHANGED <<keyVars, proxyVars>>

\* lines 91-122: a miss; the loader is shown, the request issued and the
\* handler suspends at the await
SubmitMiss ==
    /\ nSubmits < MaxSubmits
    /\ \E v \in InputValues :
        /\ ~IsEmptyValue(v)
        /\ ~IsFutureValue(v)
        /\ ~Cached(CacheKey(v, tz))
        /\ loaderHidden' = FALSE
        /\ resultDisplay' = "none"
        /\ resultHtml' = EmptyHtml
        /\ aiCalls' = aiCalls + 1
        /\ nSubmits' = nSubmits + 1
        /\ tasks' = Put(tasks, nSubmits + 1, CacheKey(v, tz))
        /\ last' = SubmitStep(nSubmits + 1, v, "miss", CacheKey(v, tz), 0)
    /\ UNCHANGED <<today, tz, localStorage>>
    /\ UNCHANGED <<keyVars, proxyVars>>

\* lines 131-138: the catch block and then the finally block
\* (mutant: the finally block does not hide the loader)
CatchAndFinallyKeepsLoader(id, path, text) ==
    /\ resultHtml' = Paragraph(FailureMsg)
    /\ UNCHANGED loaderHidden
    /\ resultDisplay' = "block"
    /\ last' = ResponseStep(id, path, tasks[id], 1, text)
    /\ tasks' = Remove(tasks, id)
CatchAndFinally(id, path, text) ==
    /\ resultHtml' = Paragraph(FailureMsg)
    /\ loaderHidden' = TRUE
    /\ resultDisplay' = "block"
    /\ last' = ResponseStep(id, path, tasks[id], 1, text)
    /\ tasks' = Remove(tasks, id)

\* line 115 throws: the call is rejected (network, quota, API error)
\* (mutant: the failure is cached as null)
ResponseRejectedCaches ==
    \E id \in DOMAIN tasks :
        /\ CatchAndFinally(id, "rejected", NoText)
        /\ localStorage' = Put(localStorage, tasks[id], JSONstringify(JsonNull))
        /\ UNCHANGED <<today, tz, nSubmits, aiCalls>>
        /\ UNCHANGED <<keyVars, proxyVars>>
\* (mutant: the catch block removes the key from the cache)
ResponseRejectedEvicts ==
    \E id \in DOMAIN tasks :
        /\ CatchAndFinally(id, "rejected", NoText)
        /\ localStorage' = Remove(localStorage, tasks[id])
        /\ UNCHANGED <<today, tz, nSubmits, aiCalls>>
        /\ UNCHANGED <<keyVars, proxyVars>>
\* (mutant: the catch block issues the request again)
ResponseRejectedRetries ==
    \E id \in DOMAIN tasks :
        /\ aiCalls' = aiCalls + 1
        /\ last' = ResponseStep(id, "rejected", tasks[id], 0, NoText)
        /\ UNCHANGED <<today, tz, localStorage, loaderHidden, resultDisplay, resultHtml,
                       tasks, nSubmits>>
        /\ UNCHANGED <<keyVars, proxyVars>>
ResponseRejected ==
    \E id \in DOMAIN tasks :
        /\ CatchAndFinally(id, "rejected", NoText)
        /\ UNCHANGED <<today, tz, localStorage, nSubmits, aiCalls>>
        /\ UNCHANGED <<keyVars, proxyVars>>

\* line 125 throws: the call resolves and response.text is not JSON
ResponseUnparsable ==
    \E id \in DOMAIN tasks, text \in ResponseTexts :
        /\ ParseThrows(text)
        /\ CatchAndFinally(id, "unparsable", text)
        /\ UNCHANGED <<today, tz, localStorage, nSubmits, aiCalls>>
        /\ UNCHANGED <<keyVars, proxyVars>>

\* lines 125-129 and 131-138: the text parses to null; it is stored (line 126)
\* and then displayResults throws at line 55, inside the try
ResponseNull ==
    \E id \in DOMAIN tasks, text \in ResponseTexts :
        /\ ~ParseThrows(text)
        /\ DisplayThrows(JSONparse(text))
        /\ localStorage' = Put(localStorage, tasks[id], JSONstringify(JSONparse(text)))
        /\ CatchAndFinally(id, "renderThrows", text)
        /\ UNCHANGED <<today, tz, nSubmits, aiCalls>>
        /\ UNCHANGED <<keyVars, proxyVars>>

\* lines 125-129 and 134-138: the text parses to an object; it is stored,
\* rendered by displayResults, and the finally block runs
ResponseSuccess ==
    \E id \in DOMAIN tasks, text \in ResponseTexts :
        /\ ~ParseThrows(text)
        /\ ~DisplayThrows(JSONparse(text))
        /\ localStorage' = Put(localStorage, tasks[id], JSONstringify(JSONparse(text)))
        /\ resultHtml' = ResultHtml(JSONparse(text))
        /\ loaderHidden' = TRUE
        /\ resultDisplay' = "block"
        /\ last' = ResponseStep(id, "success", tasks[id], 2, text)
        /\ tasks' = Remove(tasks, id)
        /\ UNCHANGED <<today, tz, nSubmits, aiCalls>>
        /\ UNCHANGED <<keyVars, proxyVars>>

Next ==
    \/ SubmitEmpty
    \/ SubmitFuture
    \/ SubmitHit
    \/ SubmitHitThrows
    \/ SubmitMiss
    \/ ResponseRejected
    \/ ResponseUnparsable
    \/ ResponseNull
    \/ ResponseSuccess

Spec == Init /\ [][Next]_vars

\* the same, for a page whose loader element starts with the class 'hidden'
InitLoaderHidden == Init /\ loaderHidden
SpecLoaderHidden == InitLoaderHidden /\ [][Next]_vars

(***************************************************************************)
(* SpecKey: the cache key of one date in one timezone (lines 91-97), for   *)
(* every date of the years FirstYear .. FirstYear + YearSpan.              *)
(***************************************************************************)
KeyDates ==
    {dt \in [y : FirstYear..(FirstYear + YearSpan), m : 1..12, d : 1..31] :
        dt.d <= DaysInMonth(dt.y, dt.m)}

InitKey ==
    /\ kValue \in {DateString(dt) : dt \in KeyDates}
    /\ kTz \in TzOffsets
    /\ kKey = NoKey
    /\ FormIdle
    /\ ProxyIdle

\* lines 91-97 on birthdateValue = kValue
DeriveKey ==
    /\ kKey = NoKey
    /\ kKey' = CacheKey(kValue, kTz)
    /\ UNCHANGED <<kValue, kTz>>
    /\ UNCHANGED <<formVars, proxyVars>>

NextKey == DeriveKey

SpecKey == InitKey /\ [][NextKey]_vars

(***************************************************************************)
(* The Proxy Handler, src/unnamed/part_000.  An invocation suspends at     *)
(* three awaits: req.json() (line 3), fetch (line 5) and response.json()   *)
(* (line 15); invocations share no state.                                  *)
(***************************************************************************)
Prompt(i) == "Prompt" \o ToString(i)

\* request bodies: not JSON, null, an object without prompt, {"prompt": p}
PromptBody(i) == [type |-> "object", prompt |-> Prompt(i)]
RequestBodies ==
    {MalformedText, JSONstringify(JsonNull), JSONstringify(EmptyObject)}
        \cup {JSONstringify(PromptBody(i)) : i \in 1..MaxPrompts}

\* line 3: const { prompt } = await req.json() throws when the body is not
\* JSON (SyntaxError) or is null (TypeError)
ReadThrows(body) == ParseThrows(body) \/ JSONparse(body).type = "null"
ReadError(body) == IF ParseThrows(body) THEN "SyntaxError" ELSE "TypeError"

\* lines 10-12: the body sent upstream; JSON.stringify drops an undefined text
Envelope(doc) ==
    [contents |-> <<[parts |-> <<IF "prompt" \in DOMAIN doc
                                 THEN [text |-> doc.prompt]
                                 ELSE EmptyMap>>]>>]

\* what the upstream may answer: a JSON document with status 200, a JSON
\* error document with an error status, or a body that is not JSON
UpstreamDoc(i) == [type |-> "object", candidates |-> i]
UpstreamError(st) == [type |-> "object", error |-> st]
ErrorStatuses == {400, 429, 503}
UpstreamAnswers ==
    {[status |-> 200, text |-> JSONstringify(UpstreamDoc(i))] : i \in 1..MaxPrompts}
        \cup {[status |-> st, text |-> JSONstringify(UpstreamError(st))] : st \in ErrorStatuses}
        \cup {[status |-> st, text |-> MalformedText] : st \in ErrorStatuses}

NoAnswer == [status |-> 0, text |-> MalformedText]

\* new Response(body, { status })
Response(body, status) == [status |-> status, body |-> body]
\* line 18: the error envelope
ErrorEnvelope(err) == JSONstringify([type |-> "object", error |-> err])
\* (mutant: the status option is left out)
ErrorResponseOk(err) == Response(ErrorEnvelope(err), 200)
ErrorResponse(err) == Response(ErrorEnvelope(err), 500)
\* line 16
SuccessResponse(answer) ==
    Response(JSONstringify(JSONparse(answer.text)), 200)

InitProxy ==
    /\ invocations = EmptyMap
    /\ nInvocations = 0
    /\ FormIdle
    /\ KeyIdle

Update(id, inv) ==
    /\ invocations' = [invocations EXCEPT ![id] = inv]
    /\ UNCHANGED nInvocations
    /\ UNCHANGED <<formVars, keyVars>>

\* a request arrives: handler(req) runs to the await of line 3
Invoke ==
    /\ nInvocations < MaxInvocations
    /\ \E body \in RequestBodies :
        invocations' = Put(invocations, nInvocations + 1,
                           [pc |-> "readBody", body |-> body, sent |-> <<>>,
                            answer |-> NoAnswer, fetchThrew |-> FALSE,
                            returned |-> <<>>])
    /\ nInvocations' = nInvocations + 1
    /\ UNCHANGED <<formVars, keyVars>>

\* line 3 throws; lines 17-18
ReadBodyThrows ==
    \E id \in DOMAIN invocations :
        /\ invocations[id].pc = "readBody"
        /\ ReadThrows(invocations[id].body)
        /\ Update(id, [invocations[id] EXCEPT
                !.pc = "done",
                !.returned = Append(@, ErrorResponse(ReadError(invocations[id].body)))])

\* lines 3-13: the body is read and the upstream request sent
ReadBodyAndFetch ==
    \E id \in DOMAIN invocations :
        /\ invocations[id].pc = "readBody"
        /\ ~ReadThrows(invocations[id].body)
        /\ Update(id, [invocations[id] EXCEPT
                !.pc = "fetching",
                !.sent = Append(@, Envelope(JSONparse(invocations[id].body)))])

\* line 5 throws (the network fails); lines 17-18
FetchThrows ==
    \E id \in DOMAIN invocations :
        /\ invocations[id].pc = "fetching"
        /\ Update(id, [invocations[id] EXCEPT
                !.pc = "done",
                !.fetchThrew = TRUE,
                !.returned = Append(@, ErrorResponse("TypeError"))])

\* line 5 resolves with the upstream's answer, whatever its status
FetchResolves ==
    \E id \in DOMAIN invocations, answer \in UpstreamAnswers :
        /\ invocations[id].pc = "fetching"
        /\ Update(id, [invocations[id] EXCEPT !.pc = "parsing", !.answer = answer])

\* line 15 throws (the upstream's body is not JSON); lines 17-18
ParseBodyThrows ==
    \E id \in DOMAIN invocations :
        /\ invocations[id].pc = "parsing"
        /\ ParseThrows(invocations[id].answer.text)
        /\ Update(id, [invocations[id] EXCEPT
                !.pc = "done",
                !.returned = Append(@, ErrorResponse("SyntaxError"))])

\* lines 15-16
ParseBodyAndReturn ==
    \E id \in DOMAIN invocations :
        /\ invocations[id].pc = "parsing"
        /\ ~ParseThrows(invocations[id].answer.text)
        /\ Update(id, [invocations[id] EXCEPT
                !.pc = "done",
                !.returned = Append(@, SuccessResponse(invocations[id].answer))])

NextProxy ==
    \/ Invoke
    \/ ReadBodyThrows
    \/ ReadBodyAndFetch
    \/ FetchThrows
    \/ FetchResolves
    \/ ParseBodyThrows
    \/ ParseBodyAndReturn

SpecProxy == InitProxy /\ [][NextProxy]_vars

(***************************************************************************)
(* The claims.                                                             *)
(***************************************************************************)
\* a is a later calendar day than b
LaterDay(a, b) ==
    \/ a.y > b.y
    \/ a.y = b.y /\ a.m > b.m
    \/ a.y = b.y /\ a.m = b.m /\ a.d > b.d

\* the step just taken is a submit event with this kind of value
SubmittedEmpty == last'.op = "submit" /\ nSubmits' = nSubmits + 1 /\ last'.value = <<>>
SubmittedDate == last'.op = "submit" /\ nSubmits' = nSubmits + 1 /\ last'.value # <<>>
SubmittedFuture == SubmittedDate /\ LaterDay(StringDate(last'.value), today)
SubmittedValid == SubmittedDate /\ ~LaterDay(StringDate(last'.value), today)
\* the step just taken is the continuation of a handler after its await
Responded == last'.op = "response" /\ tasks' # tasks

\* the markup of a record with these fields
MarkupOf(doc) ==
    [tag |-> "result",
     h2 |-> IF "movieTitle" \in DOMAIN doc THEN doc.movieTitle ELSE "undefined",
     p |-> IF "description" \in DOMAIN doc THEN doc.description ELSE "undefined",
     li |-> IF "alternativeMovies" \in DOMAIN doc THEN doc.alternativeMovies ELSE <<>>]

\* C1: a submission of a valid date whose key has an entry in the cache
\* issues no AI request, leaves the cache unchanged and renders the record
\* stored under the key.
C1_CacheHitRendersStored ==
    [][(SubmittedValid /\ CacheKey(last'.value, tz) \in DOMAIN localStorage)
        => /\ aiCalls' = aiCalls
           /\ localStorage' = localStorage
           /\ resultHtml' = MarkupOf(JSONparse(localStorage[CacheKey(last'.value, tz)]))]_vars

C3_RejectedCallWritesNothing ==
    [][(Responded /\ last'.path = "rejected")
        => /\ localStorage' = localStorage
           /\ resultDisplay' = "block"
           /\ resultHtml' = Paragraph(
                "Lo siento, no pude encontrar una película para esa fecha. Por favor, intenta con otra.")]_vars

\* C3 witness: a call was rejected while the cache held an entry
C3_Witness ==
    /\ last.path = "rejected"
    /\ DOMAIN localStorage # {}
    /\ resultHtml = Paragraph(FailureMsg)

\* C4: submitting an empty date issues no AI request, writes nothing to the
\* cache and leaves the result area visible with the "select a date" message.
C4_EmptyDate ==
    [][SubmittedEmpty
        => /\ aiCalls' = aiCalls
           /\ tasks' = tasks
           /\ localStorage' = localStorage
           /\ resultDisplay' = "block"
           /\ resultHtml' = Paragraph("Por favor, selecciona una fecha.")]_vars

\* C4 witness: an empty date was submitted while the result area was hidden
\* by a request in flight
C4_Witness ==
    /\ last.op = "submit" /\ last.value = <<>>
    /\ tasks # EmptyMap
    /\ resultDisplay = "block"

\* C5: submitting a date later than today issues no AI request, writes
\* nothing to the cache and leaves the result area visible with the "select a
\* past date" message.
C5_FutureDate ==
    [][SubmittedFuture
        => /\ aiCalls' = aiCalls
           /\ tasks' = tasks
           /\ localStorage' = localStorage
           /\ resultDisplay' = "block"
           /\ resultHtml' = Paragraph("Por favor, selecciona una fecha en el pasado.")]_vars

\* C5 witness: tomorrow was submitted while a request was in flight
C5_Witness ==
    /\ last.op = "submit" /\ last.value = DateString(NextDay(today))
    /\ tasks # EmptyMap
    /\ resultHtml = Paragraph(PastDateMsg)

\* C6: whenever a handler that passed validation has ended (cache hit,
\* successful fetch or failed fetch), the loader is hidden and the result area
\* is visible.
C6_EndsLoaderHiddenResultShown ==
    (last.op = "response" \/ (last.op = "submit" /\ last.path \in {"hit", "hitThrows"}))
        => (loaderHidden /\ resultDisplay = "block")

\* C7: any two dates of the same calendar month and year get the same cache
\* key, in every timezone.
C7_SameMonthSameKey ==
    kKey # NoKey =>
        \A dt \in KeyDates :
            (dt.y = StringDate(kValue).y /\ dt.m = StringDate(kValue).m)
                => CacheKey(DateString(dt), kTz) = kKey

\* C8 as stated: the key of a date D is movie-<month>-<year> of the calendar
\* day after D.
C8_AsStated ==
    kKey # NoKey =>
        kKey = <<"movie", MonthNames[NextDay(StringDate(kValue)).m],
                 NextDay(StringDate(kValue)).y>>

\* the local calendar day the key is read from: the day after D in a timezone
\* at or east of UTC, D itself in a timezone west of UTC
KeyDay(value, zone) ==
    IF zone >= 0 THEN NextDay(StringDate(value)) ELSE StringDate(value)

\* C8 as amended: the key of a date D is movie-<month>-<year> of the local
\* calendar day of (midnight UTC of D, plus one day): the day after D at or
\* east of UTC, D itself west of UTC; it depends on nothing else, and for
\* D = 2024-01-15 it is movie-enero-2024 in every timezone.
C8_KeyOfShiftedLocalDay ==
    kKey # NoKey =>
        /\ kKey = <<"movie", MonthNames[KeyDay(kValue, kTz).m], KeyDay(kValue, kTz).y>>
        /\ (StringDate(kValue) = MkDate(2024, 1, 15) => kKey = <<"movie", "enero", 2024>>)

\* C8 witness: the key of the last day of a month was derived west of UTC,
\* where it names that month and not the next
C8_Witness ==
    /\ kKey = <<"movie", "enero", 2024>>
    /\ StringDate(kValue) = MkDate(2024, 1, 31)
    /\ kTz < 0

\* an invocation of the Proxy Handler that has returned
Done(id) == invocations[id].pc = "done"
HasPrompt(id) ==
    /\ ~ParseThrows(invocations[id].body)
    /\ "prompt" \in DOMAIN JSONparse(invocations[id].body)

\* C9: an invocation with a prompt and an upstream that answers 200 with JSON
\* sends exactly one upstream request, carrying the prompt verbatim, and
\* returns 200 with the upstream's JSON; when the upstream call throws it
\* returns 500 with the stringified error; every invocation returns at most
\* one response, and exactly one once it has ended.
C9_ProxyRelays ==
    \A id \in DOMAIN invocations :
        /\ Len(invocations[id].returned) <= 1
        /\ Len(invocations[id].sent) <= 1
        /\ Done(id) => Len(invocations[id].returned) = 1
        /\ (Done(id) /\ HasPrompt(id) /\ invocations[id].answer.status = 200
                /\ ~ParseThrows(invocations[id].answer.text))
            => /\ invocations[id].sent =
                    <<[contents |-> <<[parts |->
                        <<[text |-> JSONparse(invocations[id].body).prompt]>>]>>]>>
               /\ invocations[id].returned[1].status = 200
               /\ JSONparse(invocations[id].returned[1].body)
                    = JSONparse(invocations[id].answer.text)
        /\ (Done(id) /\ invocations[id].fetchThrew)
            => /\ invocations[id].returned[1].status = 500
               /\ invocations[id].returned[1].body
                    = JSONstringify([type |-> "object", error |-> "TypeError"])

\* C9 witness: one invocation relayed an upstream document and another one
\* met a failing network
C9_Witness ==
    \E a, b \in DOMAIN invocations :
        /\ Done(a) /\ HasPrompt(a) /\ invocations[a].answer.status = 200
        /\ invocations[a].returned[1].status = 200
        /\ Done(b) /\ invocations[b].fetchThrew

\* C10: an invocation that met a failure (the network failed, the body was
\* not JSON or had no prompt, or the upstream answered with an error status)
\* returns 500 with the error envelope; 200 is returned only on success.
C10_FailuresReturn500 ==
    \A id \in DOMAIN invocations :
        (Done(id) /\ (\/ invocations[id].fetchThrew
                      \/ ~HasPrompt(id)
                      \/ invocations[id].answer.status \in ErrorStatuses))
            => /\ invocations[id].returned[1].status = 500
               /\ "error" \in DOMAIN JSONparse(invocations[id].returned[1].body)

\* C11: once a key has an entry in the cache it has one in every later
\* state: no step of the program removes a key.
C11_EntriesNeverRemoved ==
    [][DOMAIN localStorage \subseteq DOMAIN localStorage']_vars

\* C11 witness: a key was cached and a later request for the same key failed
C11_Witness ==
    /\ last.path = "rejected"
    /\ last.key \in DOMAIN localStorage

\* a handler has just written its entry (line 126)
Wrote == Responded /\ last'.path \in {"success", "renderThrows"}

\* C12: whenever a handler writes the entry for its key, the key is still
\* absent from the cache.
C12_WritesOnlyAbsentKeys ==
    [][Wrote => tasks[last'.id] \notin DOMAIN localStorage]_vars

\* C13: a handler that reached the network step either stores the parsed
\* result and renders it, or renders the failure message and leaves the cache
\* as it was.
C13_NoPartialSuccess ==
    [][Responded =>
        \/ /\ ~ParseThrows(last'.text)
           /\ localStorage' = Put(localStorage, tasks[last'.id], last'.text)
           /\ resultHtml' = MarkupOf(JSONparse(last'.text))
        \/ /\ resultHtml' = Paragraph(FailureMsg)
           /\ localStorage' = localStorage]_vars

\* C14: every value in the cache is the text of a record with a title, a
\* description and a list of alternatives.
C14_CacheHoldsMovieResults ==
    \A k \in DOMAIN localStorage :
        /\ ~ParseThrows(localStorage[k])
        /\ {"movieTitle", "description", "alternativeMovies"}
                \subseteq DOMAIN JSONparse(localStorage[k])

\* C15: the number of AI requests changes only by one, and only in the step
\* of a submit event with a valid date whose key is absent from the cache;
\* the continuation of a handler (a failed request included) issues none.
C15_OneRequestPerMiss ==
    [][aiCalls' # aiCalls =>
        /\ aiCalls' = aiCalls + 1
        /\ SubmittedValid
        /\ CacheKey(last'.value, tz) \notin DOMAIN localStorage]_vars

\* C15 witness: the only request failed, its handler has ended and nothing
\* was issued after it
C15_Witness ==
    /\ last.path = "rejected"
    /\ tasks = EmptyMap
    /\ aiCalls = 1
    /\ nSubmits > 1

\* C16: a response that arrives for an earlier submission, and leaves no
\* request in flight, does not replace the output of a later submission.
C16_LateResponseKeepsLaterOutput ==
    [][(Responded /\ tasks' = EmptyMap /\ last.id > last'.id)
        => (resultHtml' = resultHtml /\ resultDisplay' = resultDisplay)]_vars

\* C17: with a loader that starts hidden, a visible loader implies a request
\* in flight, and every handler that settles leaves the loader hidden.
C17_VisibleLoaderHasRequest ==
    /\ ~loaderHidden => tasks # EmptyMap
    /\ last.op = "response" => loaderHidden

\* C17 witness: one request has settled and the loader is visible for another
C17_Witness ==
    /\ ~loaderHidden
    /\ tasks # EmptyMap
    /\ aiCalls > Cardinality(DOMAIN tasks)

====
